---- MODULE Spec2Model ----
(***************************************************************************)
(* Galactic Arcade multiplayer server (src/server.js): the socket.io       *)
(* connection handlers and the module-level state they share.              *)
(*                                                                         *)
(* One action per handler; a handler runs to completion (node's event     *)
(* loop), so an action is the whole handler.  `sent' holds the messages    *)
(* the last handler emitted, in emission order, each with the set of       *)
(* sockets it was delivered to.  `event' names the last handler that ran.  *)
(* A JS Map is a function over its key set; Array.from(map.values()) is    *)
(* the set of its values (iteration order is not modelled).                *)
(***************************************************************************)
EXTENDS Integers, Sequences, FiniteSets

VARIABLES
    status,               \* socket id -> "new" | "open" | "closed" (socket.io connection)
    players,              \* gameState.players: socket id -> playerInfo
    doorState,            \* gameState.doorState: [isOpen]
    arcadeMachines,       \* gameState.arcadeMachines: machineId -> [isTransparent, forPlayer]
    usedColors,           \* usedColors: set of color strings
    playerUpdateThrottle, \* playerUpdateThrottle: socket id -> last admitted time
    now,                  \* the value Date.now() returns
    sent,                 \* messages emitted by the last handler, in order
    event,                \* the last handler that ran: [name, id, again, threw, data]
    hasJoined,            \* history: sockets whose playerJoin handler has run to its end
    toggles,              \* history: number of toggleDoor events processed
    movedLog              \* history: socket id -> times of its playerMoved broadcasts

vars == <<status, players, doorState, arcadeMachines, usedColors,
          playerUpdateThrottle, now, sent, event, hasJoined, toggles, movedLog>>

-----------------------------------------------------------------------------
(* Bounds of the model *)

Now0 == 1000           \* Date.now() when the server starts
TimeSpan == 32         \* the clock is followed up to Now0 + TimeSpan
MaxToggles == 2        \* toggleDoor events followed
MaxUsedColors == 3     \* playerJoin is followed while fewer slots are taken

(* Program constants *)

PoolSize == 16
UPDATE_THROTTLE_MS == 16

(* Inputs *)

Sockets == {"s1", "s2", "s3"}
Names == {"Nova"}
DeclaredColors == {"03", "none"}
Spawn == [x |-> 400, y |-> 680]
Step == [x |-> 410, y |-> 680]
Positions == {Step, [x |-> 400, y |-> 600]}
Pair == {"s1", "s2"}
TickSteps == {15, 16}

JoinPayloads == [name : Names, color : DeclaredColors]
TransparencyPayloads ==
    { [machineId |-> "m1", isTransparent |-> TRUE, forPlayer |-> "s1"],
      [machineId |-> "m1", isTransparent |-> FALSE, forPlayer |-> "ghost"] }
OverlayPayloads ==
    TransparencyPayloads \cup
    { [machineId |-> "m2", isTransparent |-> TRUE, forPlayer |-> "s2"],
      [machineId |-> "m2", isTransparent |-> FALSE, forPlayer |-> "ghost"] }

-----------------------------------------------------------------------------
(* JS Map operations *)

EmptyMap == [k \in {} |-> k]
MapSet(m, k, v) == [x \in (DOMAIN m) \cup {k} |-> IF x = k THEN v ELSE m[x]]
MapDelete(m, k) == [x \in (DOMAIN m) \ {k} |-> m[x]]
MapHas(m, k) == k \in DOMAIN m
MapValues(m) == {m[k] : k \in DOMAIN m}

(* i.toString().padStart(2, '0') for 0 <= i <= 99 *)

Digit == <<"0", "1", "2", "3", "4", "5", "6", "7", "8", "9">>
toString(i) ==
    IF i < 10 THEN Digit[i + 1] ELSE Digit[(i \div 10) + 1] \o Digit[(i % 10) + 1]
PadStart2(s) == IF Len(s) < 2 THEN "0" \o s ELSE s
ColorOf(i) == PadStart2(toString(i))

(* assignColor(): the first i in 1..16 whose color is not in usedColors is *)
(* added and returned; '01' when every one is taken.                       *)

RECURSIVE AssignScan(_, _)
AssignScan(i, used) ==
    IF i > PoolSize
    THEN [color |-> "01", used |-> used]
    ELSE IF ColorOf(i) \notin used
         THEN [color |-> ColorOf(i), used |-> used \cup {ColorOf(i)}]
         ELSE AssignScan(i + 1, used)

(* Mutant: the fallback of an exhausted pool is the last slot *)
assignColor_FallbackLast(used) ==
    IF \A i \in 1..PoolSize : ColorOf(i) \in used
    THEN [color |-> ColorOf(PoolSize), used |-> used]
    ELSE AssignScan(1, used)

assignColor(used) == AssignScan(1, used)

(* Mutant: the color is never given back *)
releaseColor_Noop(used, color) == used

(* releaseColor(color) *)
releaseColor(used, color) == used \ {color}

-----------------------------------------------------------------------------
(* Emission: who a message is delivered to *)

Connected(st) == {s \in Sockets : st[s] = "open"}

Msg(ev, to, data) == [ev |-> ev, to |-> to, data |-> data]

(* Mutant: a broadcast also reaches its sender *)
BroadcastEmit_IncludesSender(st, s, ev, data) == Msg(ev, Connected(st), data)

(* Mutant: a broadcast reaches only the sockets that have a player *)
BroadcastEmit_ActiveOnly(st, s, ev, data) ==
    Msg(ev, (Connected(st) \cap DOMAIN players) \ {s}, data)

(* socket.emit, socket.broadcast.emit and io.emit, for the connections st *)
SocketEmit(s, ev, data) == Msg(ev, {s}, data)
BroadcastEmit(st, s, ev, data) == Msg(ev, Connected(st) \ {s}, data)
IoEmit(st, ev, data) == Msg(ev, Connected(st), data)

(* The JS value undefined, and the absence of a payload *)
Undefined == [undefined |-> TRUE]
NoData == [none |-> TRUE]

(* The record of a handler run: the event, the socket, whether it was the  *)
(* disconnect handler run again, whether it threw, and its payload.        *)
EvData(name, s, data) ==
    [name |-> name, id |-> s, again |-> FALSE, threw |-> FALSE, data |-> data]
Ev(name, s) == EvData(name, s, NoData)

-----------------------------------------------------------------------------
Init ==
    /\ status = [s \in Sockets |-> "new"]
    /\ players = EmptyMap
    /\ doorState = [isOpen |-> FALSE]
    /\ arcadeMachines = EmptyMap
    /\ usedColors = {}
    /\ playerUpdateThrottle = EmptyMap
    /\ now = Now0
    /\ sent = <<>>
    /\ event = Ev("init", "none")
    /\ hasJoined = {}
    /\ toggles = 0
    /\ movedLog = [s \in Sockets |-> <<>>]

(* io.on('connection'): the socket is registered, nothing is emitted *)
Connect(s) ==
    /\ status[s] = "new"
    /\ status' = [status EXCEPT ![s] = "open"]
    /\ sent' = <<>>
    /\ event' = Ev("connect", s)
    /\ UNCHANGED <<players, doorState, arcadeMachines, usedColors,
                   playerUpdateThrottle, now, hasJoined, toggles, movedLog>>

(* Date.now() advances *)
Tick(d) ==
    /\ now + d <= Now0 + TimeSpan
    /\ now' = now + d
    /\ UNCHANGED <<status, players, doorState, arcadeMachines, usedColors,
                   playerUpdateThrottle, sent, event, hasJoined, toggles, movedLog>>

(* Mutant: the snapshot is not filtered *)
OtherPlayers_All(reg, s) == MapValues(reg)

(* Array.from(players.values()).filter(p => p.id !== socket.id) *)
OtherPlayers(reg, s) == {p \in MapValues(reg) : p.id # s}

(* Mutant: the color the joiner declares is honored *)
JoinEffect_HonorsDeclared(s, playerData) ==
    LET a == assignColor(usedColors)
        color == IF playerData.color # "none" THEN playerData.color ELSE a.color
        playerInfo == [id |-> s, name |-> playerData.name, color |-> color,
                       position |-> Spawn, lastUpdate |-> now]
        reg == MapSet(players, s, playerInfo)
    IN /\ usedColors' = usedColors \cup {color}
       /\ players' = reg
       /\ sent' = << SocketEmit(s, "playerColorAssigned", [color |-> color]),
                     SocketEmit(s, "gameState",
                                [players |-> OtherPlayers(reg, s),
                                 doorState |-> doorState]),
                     BroadcastEmit(status, s, "playerJoined", playerInfo) >>

(* Mutant: the snapshot is sent before the color *)
JoinEffect_SnapshotFirst(s, playerData) ==
    LET a == assignColor(usedColors)
        playerInfo == [id |-> s, name |-> playerData.name, color |-> a.color,
                       position |-> Spawn, lastUpdate |-> now]
        reg == MapSet(players, s, playerInfo)
    IN /\ usedColors' = a.used
       /\ players' = reg
       /\ sent' = << SocketEmit(s, "gameState",
                                [players |-> OtherPlayers(reg, s),
                                 doorState |-> doorState]),
                     SocketEmit(s, "playerColorAssigned", [color |-> a.color]),
                     BroadcastEmit(status, s, "playerJoined", playerInfo) >>

(* What the playerJoin handler does to the pool and the registry, and what *)
(* it emits: assignColor, playerInfo, players.set and the three emits.     *)
JoinEffect(s, playerData) ==
    LET a == assignColor(usedColors)
        playerInfo == [id |-> s, name |-> playerData.name, color |-> a.color,
                       position |-> Spawn, lastUpdate |-> now]
        reg == MapSet(players, s, playerInfo)
    IN /\ usedColors' = a.used
       /\ players' = reg
       /\ sent' = << SocketEmit(s, "playerColorAssigned", [color |-> a.color]),
                     SocketEmit(s, "gameState",
                                [players |-> OtherPlayers(reg, s),
                                 doorState |-> doorState]),
                     BroadcastEmit(status, s, "playerJoined", playerInfo) >>

(* socket.on('playerJoin') with a payload object.  The handler ends by     *)
(* logging player.position.x of every other player, which throws when a    *)
(* position is undefined: by then the state is updated and the messages    *)
(* are out.                                                                *)
PlayerJoin(s, playerData) ==
    /\ status[s] = "open"
    /\ JoinEffect(s, playerData)
    /\ event' = [EvData("playerJoin", s, playerData) EXCEPT !.threw =
                     \E p \in OtherPlayers(players, s) : p.position = Undefined]
    /\ hasJoined' = hasJoined \cup {s}
    /\ UNCHANGED <<status, doorState, arcadeMachines, playerUpdateThrottle,
                   now, toggles, movedLog>>

(* socket.on('playerJoin') with no payload: assignColor() has run when     *)
(* playerData.name throws the TypeError, and nothing after it runs.        *)
PlayerJoinNoPayload(s) ==
    /\ status[s] = "open"
    /\ usedColors' = assignColor(usedColors).used
    /\ sent' = <<>>
    /\ event' = [EvData("playerJoin", s, Undefined) EXCEPT !.threw = TRUE]
    /\ UNCHANGED <<status, players, doorState, arcadeMachines,
                   playerUpdateThrottle, now, hasJoined, toggles, movedLog>>

(* Mutant: every move of a player is admitted *)
PlayerMove_NoThrottle(s, position) ==
    /\ status[s] = "open"
    /\ event' = EvData("playerMove", s, position)
    /\ IF MapHas(players, s)
       THEN /\ players' = [players EXCEPT ![s].position = position,
                                          ![s].lastUpdate = now]
            /\ playerUpdateThrottle' = MapSet(playerUpdateThrottle, s, now)
            /\ sent' = << BroadcastEmit(status, s, "playerMoved",
                                        [id |-> s, position |-> position]) >>
            /\ movedLog' = [movedLog EXCEPT ![s] = Append(@, now)]
       ELSE /\ sent' = <<>>
            /\ UNCHANGED <<players, playerUpdateThrottle, movedLog>>
    /\ UNCHANGED <<status, doorState, arcadeMachines, usedColors, now,
                   hasJoined, toggles>>

(* Mutant: the throttle is consulted and recorded without a player *)
PlayerMove_NoPlayerCheck(s, position) ==
    /\ status[s] = "open"
    /\ event' = EvData("playerMove", s, position)
    /\ LET lastUpdate == IF MapHas(playerUpdateThrottle, s)
                         THEN playerUpdateThrottle[s] ELSE 0
       IN IF now - lastUpdate >= UPDATE_THROTTLE_MS
          THEN /\ players' = IF MapHas(players, s)
                             THEN [players EXCEPT ![s].position = position,
                                                  ![s].lastUpdate = now]
                             ELSE players
               /\ playerUpdateThrottle' = MapSet(playerUpdateThrottle, s, now)
               /\ sent' = << BroadcastEmit(status, s, "playerMoved",
                                           [id |-> s, position |-> position]) >>
               /\ movedLog' = [movedLog EXCEPT ![s] = Append(@, now)]
          ELSE /\ sent' = <<>>
               /\ UNCHANGED <<players, playerUpdateThrottle, movedLog>>
    /\ UNCHANGED <<status, doorState, arcadeMachines, usedColors, now,
                   hasJoined, toggles>>

(* Mutant: a move that is not admitted still stores its position *)
PlayerMove_StoresRejected(s, position) ==
    /\ status[s] = "open"
    /\ event' = EvData("playerMove", s, position)
    /\ LET lastUpdate == IF MapHas(playerUpdateThrottle, s)
                         THEN playerUpdateThrottle[s] ELSE 0
       IN IF MapHas(players, s) /\ now - lastUpdate >= UPDATE_THROTTLE_MS
          THEN /\ players' = [players EXCEPT ![s].position = position,
                                             ![s].lastUpdate = now]
               /\ playerUpdateThrottle' = MapSet(playerUpdateThrottle, s, now)
               /\ sent' = << BroadcastEmit(status, s, "playerMoved",
                                           [id |-> s, position |-> position]) >>
               /\ movedLog' = [movedLog EXCEPT ![s] = Append(@, now)]
          ELSE /\ sent' = <<>>
               /\ players' = IF MapHas(players, s)
                             THEN [players EXCEPT ![s].position = position]
                             ELSE players
               /\ UNCHANGED <<playerUpdateThrottle, movedLog>>
    /\ UNCHANGED <<status, doorState, arcadeMachines, usedColors, now,
                   hasJoined, toggles>>

(* Mutant: a socket with no throttle record is admitted at any time *)
PlayerMove_FirstAlways(s, position) ==
    /\ status[s] = "open"
    /\ event' = EvData("playerMove", s, position)
    /\ IF /\ MapHas(players, s)
          /\ \/ ~MapHas(playerUpdateThrottle, s)
             \/ now - playerUpdateThrottle[s] >= UPDATE_THROTTLE_MS
       THEN /\ players' = [players EXCEPT ![s].position = position,
                                          ![s].lastUpdate = now]
            /\ playerUpdateThrottle' = MapSet(playerUpdateThrottle, s, now)
            /\ sent' = << BroadcastEmit(status, s, "playerMoved",
                                        [id |-> s, position |-> position]) >>
            /\ movedLog' = [movedLog EXCEPT ![s] = Append(@, now)]
       ELSE /\ sent' = <<>>
            /\ UNCHANGED <<players, playerUpdateThrottle, movedLog>>
    /\ UNCHANGED <<status, doorState, arcadeMachines, usedColors, now,
                   hasJoined, toggles>>

(* socket.on('playerMove') *)
PlayerMove(s, position) ==
    /\ status[s] = "open"
    /\ event' = EvData("playerMove", s, position)
    /\ LET lastUpdate == IF MapHas(playerUpdateThrottle, s)
                         THEN playerUpdateThrottle[s] ELSE 0
       IN IF MapHas(players, s) /\ now - lastUpdate >= UPDATE_THROTTLE_MS
          THEN /\ players' = [players EXCEPT ![s].position = position,
                                             ![s].lastUpdate = now]
               /\ playerUpdateThrottle' = MapSet(playerUpdateThrottle, s, now)
               /\ sent' = << BroadcastEmit(status, s, "playerMoved",
                                           [id |-> s, position |-> position]) >>
               /\ movedLog' = [movedLog EXCEPT ![s] = Append(@, now)]
          ELSE /\ sent' = <<>>
               /\ UNCHANGED <<players, playerUpdateThrottle, movedLog>>
    /\ UNCHANGED <<status, doorState, arcadeMachines, usedColors, now,
                   hasJoined, toggles>>

(* Mutant: the door is opened instead of flipped *)
ToggleDoor_Opens(s) ==
    /\ status[s] = "open"
    /\ doorState' = [doorState EXCEPT !.isOpen = TRUE]
    /\ sent' = << IoEmit(status, "doorStateChanged", doorState') >>
    /\ event' = Ev("toggleDoor", s)
    /\ toggles' = toggles + 1
    /\ UNCHANGED <<status, players, arcadeMachines, usedColors,
                   playerUpdateThrottle, now, hasJoined, movedLog>>

(* Mutant: the new door state is not sent to the socket that toggled *)
ToggleDoor_Broadcast(s) ==
    /\ status[s] = "open"
    /\ doorState' = [doorState EXCEPT !.isOpen = ~doorState.isOpen]
    /\ sent' = << BroadcastEmit(status, s, "doorStateChanged", doorState') >>
    /\ event' = Ev("toggleDoor", s)
    /\ toggles' = toggles + 1
    /\ UNCHANGED <<status, players, arcadeMachines, usedColors,
                   playerUpdateThrottle, now, hasJoined, movedLog>>

(* socket.on('toggleDoor') *)
ToggleDoor(s) ==
    /\ status[s] = "open"
    /\ doorState' = [doorState EXCEPT !.isOpen = ~doorState.isOpen]
    /\ sent' = << IoEmit(status, "doorStateChanged", doorState') >>
    /\ event' = Ev("toggleDoor", s)
    /\ toggles' = toggles + 1
    /\ UNCHANGED <<status, players, arcadeMachines, usedColors,
                   playerUpdateThrottle, now, hasJoined, movedLog>>

(* socket.on('arcadeMachineTransparency') *)
ArcadeMachineTransparency(s, data) ==
    /\ status[s] = "open"
    /\ arcadeMachines' = MapSet(arcadeMachines, data.machineId,
                                [isTransparent |-> data.isTransparent,
                                 forPlayer |-> data.forPlayer])
    /\ sent' = << BroadcastEmit(status, s, "arcadeMachineTransparencyChanged", data) >>
    /\ event' = EvData("arcadeMachineTransparency", s, data)
    /\ UNCHANGED <<status, players, doorState, usedColors, playerUpdateThrottle,
                   now, hasJoined, toggles, movedLog>>

(* socket.on('arcadeMachineTransparency') with no payload: destructuring   *)
(* undefined throws the TypeError before anything is done.                 *)
ArcadeMachineTransparencyNoPayload(s) ==
    /\ status[s] = "open"
    /\ sent' = <<>>
    /\ event' = [EvData("arcadeMachineTransparency", s, Undefined)
                    EXCEPT !.threw = TRUE]
    /\ UNCHANGED <<status, players, doorState, arcadeMachines, usedColors,
                   playerUpdateThrottle, now, hasJoined, toggles, movedLog>>

(* Mutant: the registry entry is kept *)
OnDisconnect_KeepsPlayer(s, st) ==
    /\ usedColors' = IF MapHas(players, s)
                     THEN releaseColor(usedColors, players[s].color)
                     ELSE usedColors
    /\ players' = players
    /\ playerUpdateThrottle' = MapDelete(playerUpdateThrottle, s)
    /\ sent' = << IoEmit(st, "playerLeft", s) >>

(* Mutant: playerLeft is emitted only when a player was removed *)
OnDisconnect_Guarded(s, st) ==
    /\ usedColors' = IF MapHas(players, s)
                     THEN releaseColor(usedColors, players[s].color)
                     ELSE usedColors
    /\ players' = MapDelete(players, s)
    /\ playerUpdateThrottle' = MapDelete(playerUpdateThrottle, s)
    /\ sent' = IF MapHas(players, s) THEN << IoEmit(st, "playerLeft", s) >> ELSE <<>>

(* The body of socket.on('disconnect'), run for socket s when the          *)
(* connections are as in st.                                               *)
OnDisconnect(s, st) ==
    /\ usedColors' = IF MapHas(players, s)
                     THEN releaseColor(usedColors, players[s].color)
                     ELSE usedColors
    /\ players' = MapDelete(players, s)
    /\ playerUpdateThrottle' = MapDelete(playerUpdateThrottle, s)
    /\ sent' = << IoEmit(st, "playerLeft", s) >>

(* Mutant: a disconnect removes the overlays made for the leaving socket *)
Disconnect_ClearsOverlays(s) ==
    /\ status[s] = "open"
    /\ status' = [status EXCEPT ![s] = "closed"]
    /\ OnDisconnect(s, status')
    /\ event' = Ev("disconnect", s)
    /\ arcadeMachines' = [m \in {k \in DOMAIN arcadeMachines :
                                    arcadeMachines[k].forPlayer # s}
                             |-> arcadeMachines[m]]
    /\ UNCHANGED <<doorState, now, hasJoined, toggles, movedLog>>

(* The transport closes socket s: socket.io removes it from the namespace  *)
(* and then runs the handler.                                              *)
Disconnect(s) ==
    /\ status[s] = "open"
    /\ status' = [status EXCEPT ![s] = "closed"]
    /\ OnDisconnect(s, status')
    /\ event' = Ev("disconnect", s)
    /\ UNCHANGED <<doorState, arcadeMachines, now, hasJoined, toggles, movedLog>>

(* The disconnect handler is run once more for a socket already closed *)
DisconnectAgain(s) ==
    /\ status[s] = "closed"
    /\ OnDisconnect(s, status)
    /\ event' = [Ev("disconnect", s) EXCEPT !.again = TRUE]
    /\ UNCHANGED <<status, doorState, arcadeMachines, now, hasJoined, toggles,
                   movedLog>>

-----------------------------------------------------------------------------
(* Spec: every handler, three sockets, the clock standing still, every     *)
(* move to the same position.                                              *)

Next ==
    \/ \E s \in Sockets : Connect(s)
    \/ \E s \in Sockets, playerData \in JoinPayloads :
          Cardinality(usedColors) < MaxUsedColors /\ PlayerJoin(s, playerData)
    \/ \E s \in Sockets : PlayerMove(s, Step)
    \/ \E s \in Sockets : toggles < MaxToggles /\ ToggleDoor(s)
    \/ \E s \in Sockets, data \in TransparencyPayloads :
          ArcadeMachineTransparency(s, data)
    \/ \E s \in Sockets : Disconnect(s)
    \/ \E s \in Sockets : DisconnectAgain(s)

Spec == Init /\ [][Next]_vars

(* SpecView: three sockets and every handler whose messages a client      *)
(* builds its view from; the overlays are left alone.                      *)

NextView ==
    \/ \E s \in Sockets : Connect(s)
    \/ \E s \in Sockets, playerData \in JoinPayloads :
          Cardinality(usedColors) < MaxUsedColors /\ PlayerJoin(s, playerData)
    \/ \E s \in Sockets : PlayerMove(s, Step)
    \/ \E s \in Sockets : toggles < MaxToggles /\ ToggleDoor(s)
    \/ \E s \in Sockets : Disconnect(s)
    \/ \E s \in Sockets : DisconnectAgain(s)

SpecView == Init /\ [][NextView]_vars

(* SpecLife: three sockets connecting, joining, moving and leaving; the    *)
(* door and the overlays are left alone.                                   *)

NextLife ==
    \/ \E s \in Sockets : Connect(s)
    \/ \E s \in Sockets, playerData \in JoinPayloads :
          Cardinality(usedColors) < MaxUsedColors /\ PlayerJoin(s, playerData)
    \/ \E s \in Sockets, position \in Positions : PlayerMove(s, position)
    \/ \E s \in Sockets : Disconnect(s)
    \/ \E s \in Sockets : DisconnectAgain(s)

SpecLife == Init /\ [][NextLife]_vars

(* SpecClock: two sockets joining, moving and leaving while the clock runs. *)

NextClock ==
    \/ \E s \in Pair : Connect(s)
    \/ \E d \in TickSteps : Tick(d)
    \/ \E s \in Pair, playerData \in JoinPayloads :
          Cardinality(usedColors) < MaxUsedColors /\ PlayerJoin(s, playerData)
    \/ \E s \in Pair, position \in Positions : PlayerMove(s, position)
    \/ \E s \in Pair : Disconnect(s)

SpecClock == Init /\ [][NextClock]_vars

(* SpecEpoch: as SpecClock, with a clock that reads 0 when the server      *)
(* starts (Date.now() is the system clock in ms since 1970; a fake or      *)
(* unset clock reads 0).                                                   *)

InitEpoch ==
    /\ status = [s \in Sockets |-> "new"]
    /\ players = EmptyMap
    /\ doorState = [isOpen |-> FALSE]
    /\ arcadeMachines = EmptyMap
    /\ usedColors = {}
    /\ playerUpdateThrottle = EmptyMap
    /\ now = 0
    /\ sent = <<>>
    /\ event = Ev("init", "none")
    /\ hasJoined = {}
    /\ toggles = 0
    /\ movedLog = [s \in Sockets |-> <<>>]

NextEpoch ==
    \/ \E s \in Pair : Connect(s)
    \/ \E d \in TickSteps : now + d <= TimeSpan /\ Tick(d)
    \/ \E s \in Pair, playerData \in JoinPayloads :
          Cardinality(usedColors) < MaxUsedColors /\ PlayerJoin(s, playerData)
    \/ \E s \in Pair, position \in Positions : PlayerMove(s, position)
    \/ \E s \in Pair : Disconnect(s)

SpecEpoch == InitEpoch /\ [][NextEpoch]_vars

(* SpecMalformed: two sockets whose events may come without a payload.     *)
(* Nothing in server.js catches an exception thrown by a  *)
(* handler, so the process ends with it: no handler runs after a throw.    *)

Running == ~event.threw
PositionsLoose == {Step, Undefined}

NextMalformed ==
    \/ \E s \in Pair : Running /\ Connect(s)
    \/ \E s \in Pair, playerData \in JoinPayloads :
          /\ Running /\ Cardinality(usedColors) < MaxUsedColors
          /\ PlayerJoin(s, playerData)
    \/ \E s \in Pair :
          /\ Running /\ Cardinality(usedColors) < MaxUsedColors
          /\ PlayerJoinNoPayload(s)
    \/ \E s \in Pair, position \in PositionsLoose :
          Running /\ PlayerMove(s, position)
    \/ \E s \in Pair : Running /\ toggles < MaxToggles /\ ToggleDoor(s)
    \/ \E s \in Pair, data \in TransparencyPayloads :
          Running /\ ArcadeMachineTransparency(s, data)
    \/ \E s \in Pair : Running /\ ArcadeMachineTransparencyNoPayload(s)
    \/ \E s \in Pair : Running /\ Disconnect(s)

SpecMalformed == Init /\ [][NextMalformed]_vars

(* SpecPool: one socket joining a server whose pool is in any state that   *)
(* earlier sockets, now gone, can have left it in.  Every set of slots but *)
(* the full one can be left taken with no player registered (a slot leaks  *)
(* each time a registered socket joins again); the full pool is reached    *)
(* from there.  A join of a registered socket is followed once the pool    *)
(* is exhausted.                                                           *)

AllColors == {ColorOf(i) : i \in 1..PoolSize}

InitPool ==
    /\ status = [s \in Sockets |-> "new"]
    /\ players = EmptyMap
    /\ doorState = [isOpen |-> FALSE]
    /\ arcadeMachines = EmptyMap
    /\ usedColors \in (SUBSET AllColors) \ {AllColors}
    /\ playerUpdateThrottle = EmptyMap
    /\ now = Now0
    /\ sent = <<>>
    /\ event = Ev("init", "none")
    /\ hasJoined = {}
    /\ toggles = 0
    /\ movedLog = [s \in Sockets |-> <<>>]

NextPool ==
    \/ Connect("s1")
    \/ \E playerData \in JoinPayloads :
          /\ "s1" \in DOMAIN players => usedColors = AllColors
          /\ PlayerJoin("s1", playerData)

SpecPool == InitPool /\ [][NextPool]_vars

(* SpecOverlay: two sockets connecting, joining, setting overlays on two   *)
(* machines and leaving.                                                   *)

NextOverlay ==
    \/ \E s \in Pair : Connect(s)
    \/ \E s \in Pair, playerData \in JoinPayloads :
          Cardinality(usedColors) < MaxUsedColors /\ PlayerJoin(s, playerData)
    \/ \E s \in Pair, data \in OverlayPayloads : ArcadeMachineTransparency(s, data)
    \/ \E s \in Pair : Disconnect(s)

SpecOverlay == Init /\ [][NextOverlay]_vars

(* SpecChurn: two sockets connecting, joining (any number of times) and    *)
(* leaving, until the color pool is exhausted.                             *)

NextChurn ==
    \/ \E s \in Pair : Connect(s)
    \/ \E s \in Pair, playerData \in JoinPayloads : PlayerJoin(s, playerData)
    \/ \E s \in Pair : Disconnect(s)

SpecChurn == Init /\ [][NextChurn]_vars

-----------------------------------------------------------------------------
(* Vocabulary of the properties *)

Open == {s \in Sockets : status[s] = "open"}
Active == DOMAIN players
Pending == Open \ Active

(* A step in which a handler ran (the clock does not move inside a handler) *)
HandlerStep(name) == now' = now /\ event'.name = name

WorldUnchanged ==
    UNCHANGED <<players, usedColors, playerUpdateThrottle, doorState, arcadeMachines>>

-----------------------------------------------------------------------------
(* C1: whenever at most 16 sockets are registered as players, no two       *)
(* registered players hold the same color.                                 *)
ColorUniqueness ==
    Cardinality(Active) <= 16 =>
        \A a, b \in Active : a # b => players[a].color # players[b].color

-----------------------------------------------------------------------------
(* C2, as stated: the disconnect of a socket that never joined changes no  *)
(* state and sends no message to anyone.                                   *)
PendingDisconnectSilent ==
    [][ (HandlerStep("disconnect") /\ ~event'.again /\ event'.id \notin hasJoined)
          => (WorldUnchanged /\ sent' = <<>>) ]_vars

(* C2, amended: the disconnect of a socket that never joined changes no    *)
(* state, and playerLeft with its id is sent to every remaining socket     *)
(* (and nothing else is sent).                                             *)
PendingDisconnectBroadcasts ==
    [][ (HandlerStep("disconnect") /\ ~event'.again /\ event'.id \notin hasJoined)
          => /\ WorldUnchanged
             /\ Len(sent') = 1
             /\ sent'[1].ev = "playerLeft"
             /\ sent'[1].data = event'.id
             /\ sent'[1].to = {s \in Sockets : status'[s] = "open"} ]_vars

(* C2 witness: a never-joined socket has just disconnected while a player  *)
(* and another socket were connected.                                      *)
PendingDisconnectSeen ==
    /\ event.name = "disconnect" /\ ~event.again
    /\ event.id \notin hasJoined
    /\ Active # {}
    /\ Cardinality(Open) = 2

-----------------------------------------------------------------------------
(* C3: the gameState message of a playerJoin goes to the joiner with       *)
(* exactly the registered players other than the joiner, and the door.     *)
JoinSnapshotExcludesSelf ==
    event.name = "playerJoin" =>
        /\ Len(sent) >= 2
        /\ sent[2].ev = "gameState"
        /\ sent[2].to = {event.id}
        /\ sent[2].data.players = {players[p] : p \in Active \ {event.id}}
        /\ \A p \in sent[2].data.players : p.id # event.id
        /\ sent[2].data.doorState = doorState

(* C3 witness: a join whose snapshot holds two other players, one of which *)
(* has moved, with the door open.                                          *)
JoinSnapshotSeen ==
    /\ event.name = "playerJoin"
    /\ Cardinality(sent[2].data.players) = 2
    /\ \E p \in sent[2].data.players : p.position # Spawn
    /\ sent[2].data.doorState.isOpen


-----------------------------------------------------------------------------
(* C4: for every socket, any two of its playerMoved broadcasts are at      *)
(* least the throttle interval (16 ms) apart, so no window shorter than    *)
(* the interval holds more than one of them.                               *)
ThrottleBound ==
    \A s \in Sockets : \A i, j \in DOMAIN movedLog[s] :
        i < j => movedLog[s][j] - movedLog[s][i] >= 16

(* C4 witness: a socket with two playerMoved broadcasts behind it has just *)
(* sent a further move that produced none.                                 *)
ThrottleSeen ==
    \E s \in Active :
        /\ Len(movedLog[s]) = 2
        /\ event.name = "playerMove" /\ event.id = s
        /\ sent = <<>>

-----------------------------------------------------------------------------
(* C5: sender inclusion.  playerColorAssigned and gameState reach the      *)
(* joiner alone; playerJoined, playerMoved and                             *)
(* arcadeMachineTransparencyChanged reach every open socket but the one    *)
(* whose event caused them; doorStateChanged reaches every open socket,    *)
(* the toggler included; playerLeft reaches every remaining socket.        *)
SenderInclusion ==
    \A i \in DOMAIN sent :
        LET m == sent[i] IN
        /\ m.ev \in {"playerColorAssigned", "gameState"} =>
              event.name = "playerJoin" /\ m.to = {event.id}
        /\ m.ev \in {"playerJoined", "playerMoved",
                     "arcadeMachineTransparencyChanged"} =>
              event.id \notin m.to /\ m.to = Open \ {event.id}
        /\ m.ev = "doorStateChanged" =>
              event.id \in m.to /\ m.to = Open
        /\ m.ev = "playerLeft" =>
              event.id \notin Open /\ m.to = Open

(* C5 witness: a join with two other sockets connected *)
SenderInclusionSeen ==
    /\ event.name = "playerJoin"
    /\ Len(sent) = 3
    /\ Cardinality(sent[3].to) = 2

-----------------------------------------------------------------------------
(* C6, as stated: no message is delivered to a socket that is connected    *)
(* but has not joined.                                                     *)
NoDeliveryToPending ==
    \A i \in DOMAIN sent : sent[i].to \cap Pending = {}

(* C6, amended: joining is not a condition of delivery.  A pending socket  *)
(* receives doorStateChanged and playerLeft always, and playerJoined,      *)
(* playerMoved and arcadeMachineTransparencyChanged whenever it is not     *)
(* the sender; it receives nothing else (playerColorAssigned and gameState *)
(* go to the joiner alone).                                                *)
PendingReceivesBroadcasts ==
    \A r \in Pending : \A i \in DOMAIN sent :
        r \in sent[i].to <=>
            \/ sent[i].ev \in {"doorStateChanged", "playerLeft"}
            \/ /\ sent[i].ev \in {"playerJoined", "playerMoved",
                                   "arcadeMachineTransparencyChanged"}
               /\ r # event.id

(* C6 witness: a playerMoved delivered to a pending socket and to a player *)
PendingReceivesSeen ==
    /\ event.name = "playerMove"
    /\ Len(sent) = 1
    /\ sent[1].to \cap Pending # {}
    /\ sent[1].to \cap Active # {}

-----------------------------------------------------------------------------
(* C7: the door is open exactly when an odd number of toggleDoor events    *)
(* has been processed (closed at the start), and a toggle broadcasts the   *)
(* new value.                                                              *)
DoorParity ==
    /\ doorState.isOpen <=> (toggles % 2 = 1)
    /\ event.name = "toggleDoor" =>
          /\ Len(sent) = 1
          /\ sent[1].ev = "doorStateChanged"
          /\ sent[1].data = [isOpen |-> (toggles % 2 = 1)]

(* C7 witness: the second toggle has closed the door again *)
DoorParitySeen ==
    /\ event.name = "toggleDoor"
    /\ toggles = 2
    /\ ~doorState.isOpen

-----------------------------------------------------------------------------
(* C8: the registry's keys are exactly the open sockets that have sent a   *)
(* playerJoin.                                                             *)
RegistryKeys ==
    Active = {s \in Sockets : status[s] = "open" /\ s \in hasJoined}

(* C8 witness: one socket has joined and left, one is connected and has    *)
(* not joined, one is a player.                                            *)
RegistryKeysSeen ==
    /\ \E s \in hasJoined : status[s] = "closed"
    /\ Pending # {}
    /\ Active # {}

-----------------------------------------------------------------------------
(* C9, as stated: a second disconnect of the same socket changes no state  *)
(* and sends no message.                                                   *)
SecondDisconnectSilent ==
    [][ (HandlerStep("disconnect") /\ event'.again)
          => (WorldUnchanged /\ sent' = <<>>) ]_vars

(* C9, amended: a second disconnect of the same socket changes no state    *)
(* (no color is released again), and playerLeft with its id is broadcast   *)
(* once more to every open socket.                                         *)
SecondDisconnectRebroadcasts ==
    [][ (HandlerStep("disconnect") /\ event'.again)
          => /\ WorldUnchanged
             /\ status' = status
             /\ Len(sent') = 1
             /\ sent'[1].ev = "playerLeft"
             /\ sent'[1].data = event'.id
             /\ sent'[1].to = Open ]_vars

(* C9 witness: the second disconnect of a socket that had been a player,   *)
(* with colors in use by the players that remain.                          *)
SecondDisconnectSeen ==
    /\ event.name = "disconnect" /\ event.again
    /\ event.id \in hasJoined
    /\ Active # {}
    /\ "01" \in usedColors

-----------------------------------------------------------------------------
(* C10: the disconnect of a player removes its registry entry and its      *)
(* throttle record, frees its color and sends playerLeft with its id to    *)
(* every remaining socket; and every playerJoin assigns the lowest free    *)
(* slot, so a freed color is handed out again once it is the lowest.       *)
SlotLabels == <<"01", "02", "03", "04", "05", "06", "07", "08",
                "09", "10", "11", "12", "13", "14", "15", "16">>
FreeSlots == {k \in DOMAIN SlotLabels : SlotLabels[k] \notin usedColors}

DisconnectReleases ==
    [][ /\ (HandlerStep("disconnect") /\ event'.id \in Active) =>
              /\ event'.id \notin DOMAIN players'
              /\ event'.id \notin DOMAIN playerUpdateThrottle'
              /\ players[event'.id].color \notin usedColors'
              /\ Len(sent') = 1
              /\ sent'[1].ev = "playerLeft"
              /\ sent'[1].data = event'.id
              /\ sent'[1].to = {s \in Sockets : status'[s] = "open"}
        /\ (HandlerStep("playerJoin") /\ FreeSlots # {}) =>
              \E k \in FreeSlots :
                  /\ \A l \in FreeSlots : k <= l
                  /\ players'[event'.id].color = SlotLabels[k] ]_vars

(* C10 witness: a player that had moved has left, and a joiner has just    *)
(* been given '01' while another player still holds '02'.                  *)
DisconnectReleasesSeen ==
    /\ event.name = "playerJoin"
    /\ players[event.id].color = "01"
    /\ \E b \in Active : players[b].color = "02"
    /\ \E a \in hasJoined : status[a] = "closed" /\ Len(movedLog[a]) > 0

-----------------------------------------------------------------------------
(* C11: no handler fails on malformed input: every handler runs to its     *)
(* end without raising an error, whatever is missing from its payload (so  *)
(* no handler is cut short with its updates half made).                    *)
HandlersComplete == ~event.threw

-----------------------------------------------------------------------------
(* C12: the color declared in a playerJoin payload has no influence: from  *)
(* any state, a join carrying another declared color (and the same name)   *)
(* assigns the same color, stores the same record and sends the same       *)
(* messages, so runs differing only in declared colors stay equal.         *)
DeclaredColorIgnored ==
    [][ HandlerStep("playerJoin") =>
          \A e \in JoinPayloads :
             e.name = event'.data.name => JoinEffect(event'.id, e) ]_vars

(* C12 witness: a join that declared '03' was given '01', with '03' free *)
DeclaredColorSeen ==
    /\ event.name = "playerJoin"
    /\ event.data.color = "03"
    /\ players[event.id].color = "01"
    /\ "03" \notin usedColors

-----------------------------------------------------------------------------
(* C13: a playerJoin emits playerColorAssigned to the joiner, then         *)
(* gameState to the joiner, then playerJoined to the others; the color in  *)
(* playerColorAssigned is the color of the stored record and of the        *)
(* playerJoined record, whose position is the spawn point (400, 680).      *)
JoinMessageOrder ==
    event.name = "playerJoin" =>
        /\ Len(sent) = 3
        /\ sent[1].ev = "playerColorAssigned" /\ sent[1].to = {event.id}
        /\ sent[2].ev = "gameState" /\ sent[2].to = {event.id}
        /\ sent[3].ev = "playerJoined" /\ sent[3].to = Open \ {event.id}
        /\ sent[1].data.color = players[event.id].color
        /\ sent[3].data.color = sent[1].data.color
        /\ sent[3].data.id = event.id
        /\ sent[3].data.position = [x |-> 400, y |-> 680]

(* C13 witness: a second join of a player that had moved, announced to two *)
(* other sockets, with a color other than '01'.                            *)
JoinMessageOrderSeen ==
    /\ event.name = "playerJoin"
    /\ Len(movedLog[event.id]) > 0
    /\ Cardinality(sent[3].to) = 2
    /\ sent[1].data.color # "01"

-----------------------------------------------------------------------------
(* C14: assignColor, for every set of assigned slots among '01'..'16':     *)
(* with a slot free, the joiner gets the lowest-numbered free slot and     *)
(* exactly that slot becomes assigned; with all 16 assigned, the joiner    *)
(* gets '01', the pool is unchanged, and the join still registers the      *)
(* player.                                                                 *)
AssignColorLowest ==
    [][ HandlerStep("playerJoin") =>
          /\ event'.id \in DOMAIN players'
          /\ sent'[1].data.color = players'[event'.id].color
          /\ IF FreeSlots # {}
             THEN \E k \in FreeSlots :
                      /\ \A l \in FreeSlots : k <= l
                      /\ players'[event'.id].color = SlotLabels[k]
                      /\ usedColors' = usedColors \cup {SlotLabels[k]}
             ELSE /\ players'[event'.id].color = "01"
                  /\ usedColors' = usedColors ]_vars

(* C14 witness: a join has ended with the pool exhausted and the joiner    *)
(* registered with '01', the color announced to the others.                *)
AssignColorLowestSeen ==
    /\ event.name = "playerJoin"
    /\ event.id \in DOMAIN players
    /\ Cardinality(usedColors) = 16
    /\ players[event.id].color = "01"
    /\ sent[3].data.color = "01"

-----------------------------------------------------------------------------
(* A handler step of the given event whose socket is pending *)
PendingEvent(name) == HandlerStep(name) /\ event'.id \in Pending

(* C15 as stated: every playerMove, toggleDoor and                         *)
(* arcadeMachineTransparency of a pending connection is ignored: registry, *)
(* door, overlays, pool and throttle records unchanged, nothing sent.      *)
PendingEventsIgnored ==
    [][ (\E name \in {"playerMove", "toggleDoor", "arcadeMachineTransparency"} :
            PendingEvent(name))
        => (WorldUnchanged /\ sent' = <<>>) ]_vars

(* C15 amended: of the events of a pending connection only playerMove is   *)
(* ignored.  Its toggleDoor flips the door and doorStateChanged goes to    *)
(* every connection; its arcadeMachineTransparency stores the overlay and  *)
(* the payload goes to every other connection.  None of the three touches  *)
(* the registry, the pool or the throttle records.                         *)
PendingEventsHandled ==
    [][ /\ PendingEvent("playerMove") => (WorldUnchanged /\ sent' = <<>>)
        /\ PendingEvent("toggleDoor") =>
              /\ doorState'.isOpen = ~doorState.isOpen
              /\ Len(sent') = 1
              /\ sent'[1].ev = "doorStateChanged"
              /\ sent'[1].to = Open
              /\ sent'[1].data = doorState'
              /\ UNCHANGED <<players, usedColors, playerUpdateThrottle,
                             arcadeMachines>>
        /\ PendingEvent("arcadeMachineTransparency") =>
              LET data == event'.data IN
              /\ DOMAIN arcadeMachines' = DOMAIN arcadeMachines \cup {data.machineId}
              /\ arcadeMachines'[data.machineId] =
                     [isTransparent |-> data.isTransparent,
                      forPlayer |-> data.forPlayer]
              /\ \A m \in DOMAIN arcadeMachines \ {data.machineId} :
                     arcadeMachines'[m] = arcadeMachines[m]
              /\ Len(sent') = 1
              /\ sent'[1].ev = "arcadeMachineTransparencyChanged"
              /\ sent'[1].to = Open \ {event'.id}
              /\ sent'[1].data = data
              /\ UNCHANGED <<players, usedColors, playerUpdateThrottle,
                             doorState>> ]_vars

(* C15 witness: a connection that never joined has toggled the door open   *)
(* and was itself told so.                                                 *)
PendingEventsHandledSeen ==
    /\ event.name = "toggleDoor"
    /\ event.id \in Pending
    /\ event.id \notin hasJoined
    /\ doorState.isOpen
    /\ Len(sent) = 1
    /\ event.id \in sent[1].to

-----------------------------------------------------------------------------
(* The time of the last admitted move the throttle holds for s *)
LastAdmitted(s) ==
    IF MapHas(playerUpdateThrottle, s) THEN playerUpdateThrottle[s] ELSE 0

(* A playerMove step of a player that comes too soon after the last one *)
RejectedMove ==
    /\ HandlerStep("playerMove")
    /\ event'.id \in Active
    /\ now - LastAdmitted(event'.id) < UPDATE_THROTTLE_MS

(* C16: a playerMove the throttle rejects changes nothing (position,       *)
(* lastUpdate, throttle record, all other state) and sends nothing; and no *)
(* step applies or broadcasts a position other than its own: a player's    *)
(* position changes only to the position of a playerMove of that player in *)
(* that very step, and a playerMoved sent by a handler carries the         *)
(* position of that handler's own playerMove.                              *)
RejectedMoveDropped ==
    [][ /\ RejectedMove =>
              (WorldUnchanged /\ sent' = <<>> /\ movedLog' = movedLog)
        /\ \A p \in DOMAIN players \cap DOMAIN players' :
              players'[p].position # players[p].position =>
                 \/ /\ HandlerStep("playerMove")
                    /\ event'.id = p
                    /\ players'[p].position = event'.data
                    /\ ~RejectedMove
                 \/ /\ HandlerStep("playerJoin")
                    /\ event'.id = p
                    /\ players'[p].position = Spawn
        /\ \A i \in 1..Len(sent') :
              (now' = now /\ sent'[i].ev = "playerMoved") =>
                 /\ HandlerStep("playerMove")
                 /\ ~RejectedMove
                 /\ sent'[i].data = [id |-> event'.id, position |-> event'.data] ]_vars

(* C16 witness: a player that had moved sent another position too soon;    *)
(* it keeps the earlier position and nothing was sent.                     *)
RejectedMoveDroppedSeen ==
    /\ event.name = "playerMove"
    /\ event.id \in Active
    /\ sent = <<>>
    /\ now - LastAdmitted(event.id) < UPDATE_THROTTLE_MS
    /\ players[event.id].position # Spawn
    /\ players[event.id].position # event.data

-----------------------------------------------------------------------------
(* What an admitted playerMove of the step's socket does *)
MoveApplied ==
    LET s == event'.id IN
    /\ players' = [players EXCEPT ![s].position = event'.data,
                                  ![s].lastUpdate = now]
    /\ MapHas(playerUpdateThrottle', s)
    /\ playerUpdateThrottle'[s] = now
    /\ \A o \in DOMAIN playerUpdateThrottle \ {s} :
          MapHas(playerUpdateThrottle', o)
          /\ playerUpdateThrottle'[o] = playerUpdateThrottle[o]
    /\ sent' = << [ev |-> "playerMoved", to |-> Open \ {s},
                   data |-> [id |-> s, position |-> event'.data]] >>
    /\ UNCHANGED <<usedColors, doorState, arcadeMachines>>

(* What a playerMove that is not admitted does *)
MoveDropped == WorldUnchanged /\ sent' = <<>>

-----------------------------------------------------------------------------
(* C18: overlays persist and the last write wins: no step removes a key of *)
(* the overlay map (the disconnect of the sender or of forPlayer           *)
(* included); an entry appears or changes only in an                       *)
(* arcadeMachineTransparency step for that machine id; and after such a    *)
(* step the entry is the {isTransparent, forPlayer} of its payload,        *)
(* whether or not forPlayer is a registered player.                        *)
OverlaysPersist ==
    [][ /\ DOMAIN arcadeMachines \subseteq DOMAIN arcadeMachines'
        /\ \A m \in DOMAIN arcadeMachines' :
              (m \notin DOMAIN arcadeMachines
                 \/ arcadeMachines'[m] # arcadeMachines[m])
              => /\ HandlerStep("arcadeMachineTransparency")
                 /\ event'.data.machineId = m
        /\ HandlerStep("arcadeMachineTransparency") =>
              /\ event'.data.machineId \in DOMAIN arcadeMachines'
              /\ arcadeMachines'[event'.data.machineId] =
                     [isTransparent |-> event'.data.isTransparent,
                      forPlayer |-> event'.data.forPlayer] ]_vars

(* C18 witness: every socket has left; the overlay made for one of them    *)
(* and the overlay made for a player that never existed are both there.    *)
OverlaysPersistSeen ==
    /\ event.name = "disconnect"
    /\ \A s \in Pair : status[s] = "closed"
    /\ players = EmptyMap
    /\ DOMAIN arcadeMachines = {"m1", "m2"}
    /\ arcadeMachines["m1"].forPlayer = "s1"
    /\ arcadeMachines["m2"].forPlayer = "ghost"
    /\ "s1" \in hasJoined

-----------------------------------------------------------------------------
(* C19: the slots marked assigned in the pool are exactly the colors held  *)
(* by the registered players: no slot is assigned with no player holding   *)
(* it, and no player holds a slot that is marked free.                     *)
PoolMatchesRegistry ==
    usedColors = {players[p].color : p \in Active}

-----------------------------------------------------------------------------
(* The view of a client: the positions of the other players by id, and the *)
(* door.                                                                   *)

(* What the registry reg and the door look like to client c *)
ServerView(reg, door, c) ==
    [pos |-> [p \in DOMAIN reg \ {c} |-> reg[p].position], door |-> door]

(* The view a client builds from a gameState snapshot *)
SnapshotView(data) ==
    [pos |-> [p \in {q.id : q \in data.players} |->
                 (CHOOSE q \in data.players : q.id = p).position],
     door |-> data.doorState]

(* The view after the client has applied message m to view v *)
ApplyMsg(v, m) ==
    CASE m.ev = "gameState" -> SnapshotView(m.data)
      [] m.ev = "playerJoined" ->
           [v EXCEPT !.pos = MapSet(v.pos, m.data.id, m.data.position)]
      [] m.ev = "playerMoved" ->
           IF MapHas(v.pos, m.data.id)
           THEN [v EXCEPT !.pos = MapSet(v.pos, m.data.id, m.data.position)]
           ELSE v
      [] m.ev = "playerLeft" -> [v EXCEPT !.pos = MapDelete(v.pos, m.data)]
      [] m.ev = "doorStateChanged" -> [v EXCEPT !.door = m.data]
      [] OTHER -> v

(* The view after client c has applied, in order, the messages of msgs     *)
(* from the i-th on that are addressed to it                               *)
RECURSIVE ApplyAll(_, _, _, _)
ApplyAll(v, msgs, i, c) ==
    IF i > Len(msgs) THEN v
    ELSE ApplyAll(IF c \in msgs[i].to THEN ApplyMsg(v, msgs[i]) ELSE v,
                  msgs, i + 1, c)

(* C20: client views converge: in every handler run, each connection that  *)
(* is active after it, starting from the server's registry restricted to   *)
(* the other players and the door as they were before the run (from        *)
(* nothing if it was not active), and applying in order the messages the   *)
(* run sent to it (gameState, playerJoined, playerMoved, playerLeft,       *)
(* doorStateChanged), ends with the registry restricted to the other       *)
(* players (ids and positions) and the door as they are after the run.     *)
ClientViewConverges ==
    [][ now' = now =>
          \A c \in DOMAIN players' :
             ApplyAll(IF c \in Active
                      THEN ServerView(players, doorState, c)
                      ELSE [pos |-> EmptyMap, door |-> [isOpen |-> FALSE]],
                      sent', 1, c)
             = ServerView(players', doorState', c) ]_vars

(* C20 witness: with the door open, a player has moved and another active  *)
(* connection was sent the playerMoved.                                    *)
ClientViewConvergesSeen ==
    /\ event.name = "playerMove"
    /\ event.id \in Active
    /\ players[event.id].position = Step
    /\ doorState.isOpen
    /\ Len(sent) = 1
    /\ \E c \in Active \ {event.id} : c \in sent[1].to

====
